---- MODULE Spec2Model ----
(***************************************************************************)
(* The contact routing core of the CRM service: app/services.py            *)
(* (LeadService, OperatorService, ContactService, RoutingService) as it is *)
(* called from app/repository.py (ContactRepository.create), over the      *)
(* tables of app/schemas.py.                                               *)
(*                                                                         *)
(* Every database statement of route_and_create_contact is one step of the *)
(* calling process; local computation is part of the step of the statement *)
(* that precedes it.  Sessions see committed data only, and every write of *)
(* the routing code is committed in the step that makes it.                *)
(***************************************************************************)
EXTENDS Integers, Sequences, FiniteSets, TLC

VARIABLES
    operators,  \* table operators: id -> [is_active, max_concurrent]
    sources,    \* table sources: sequence of codes, id = index
    weights,    \* table operator_source_weights: set of rows
    leads,      \* table leads: sequence of rows, id = index
    contacts,   \* table contacts: sequence of rows, id = index
    pc,         \* per process: the statement it is about to execute
    loc,        \* per process: arguments and local variables of the call
    memo        \* history: a call that has finished, with the lead it resolved to

vars == <<operators, sources, weights, leads, contacts, pc, loc, memo>>

----------------------------------------------------------------------------
(* Bounds of the model *)

NumProcs == 2
NumOperators == 2
MaxCap == 1
MaxWeight == 2
MaxLeads == 2
MaxContacts == 2
MaxSeqLeads == 1
MaxSeqContacts == 3
MaxLeadLeads == 2
MaxLeadContacts == 2
NumDrawOperators == 3
MaxDrawWeight == 3
MaxItems == 2
MaxEligibleContacts == 2

Procs == 1 .. NumProcs
OperatorIds == 1 .. NumOperators

----------------------------------------------------------------------------
(* Values *)

\* Python None of a string argument or column (SQL NULL)
None == "<None>"
\* the empty string
Empty == ""
\* a null id: no lead found, no source found, operator None
NoId == 0

\* a faulty test: None is used as a key (`== None` matches the NULL column)
NotEmpty(s) == s # Empty

\* `if external_id:`, `and phone`, `and email`: None and "" are falsy
Truthy(s) == s # None /\ s # Empty

ExternalIds == {None, Empty, "x1"}
Phones == {None, Empty, "p1"}
\* ContactCreate.email is Optional[EmailStr]: never the empty string
Emails == {None, "e1"}
\* models.Status, the status field of ContactCreate
Status == {"new", "assigned", "in_progress", "closed"}
SourceCodes == {"tg", "zz"}
\* the empty JSON object {}
EmptyDict == "{}"
\* ContactCreate.payload: absent, the empty object, or an object with content
Payloads == {None, EmptyDict, "{k: 1}"}

\* ContactCreate (the fields the claims are about) and the path parameter
ContactCreate == [external_id : ExternalIds, phone : Phones, email : Emails,
                  status : Status, payload : Payloads]

\* the identifying fields and the Lead rows
LeadRow(external_id, phone, email) ==
    [external_id |-> external_id, phone |-> phone, email |-> email]

\* a faulty create_contact: the status does not follow the operator
NewContactAlwaysNew(lead, source, operator, payload) ==
    [lead_id |-> lead, source_id |-> source, operator_id |-> operator,
     status |-> "new", payload |-> payload]

\* a faulty create_contact: the payload is dropped
StoredPayloadEmpty(payload) == EmptyDict

\* `payload or {}`: None and the empty object are falsy
StoredPayload(payload) ==
    IF payload = None \/ payload = EmptyDict THEN EmptyDict ELSE payload

\* a Contact row as ContactService.create_contact builds it
NewContact(lead, source, operator, payload) ==
    [lead_id |-> lead, source_id |-> source,
     operator_id |-> IF operator # NoId THEN operator ELSE NoId,
     status |-> IF operator # NoId THEN "assigned" ELSE "new",
     payload |-> StoredPayload(payload)]

\* the arguments and locals of a call that is not running; pre_leads,
\* pre_contacts and pre_weights are history: the rows when the call began
IdleLoc ==
    [external_id |-> None, phone |-> None, email |-> None, status |-> "new",
     payload |-> None, source_code |-> "", lead |-> NoId, created |-> FALSE, source |-> NoId,
     operator_ids |-> {}, ops |-> <<>>, k |-> 0, eligible |-> <<>>,
     wts |-> <<>>, operator |-> NoId, contact |-> NoId, error |-> "",
     pre_leads |-> <<>>, pre_contacts |-> <<>>,
     source_id |-> NoId, new_weights |-> <<>>, rows |-> {}, pre_weights |-> {}]

----------------------------------------------------------------------------
(* Queries *)

\* query.filter(Lead.external_id == external_id): the ids of the matching rows
MatchExternalId(ls, v) == {i \in 1 .. Len(ls) : ls[i].external_id = v}

\* a faulty phone query: it finds nothing
MatchPhoneNever(ls, v) == {}

\* query.filter(Lead.phone == phone)
MatchPhone(ls, v) == {i \in 1 .. Len(ls) : ls[i].phone = v}

\* a faulty email query: it finds nothing
MatchEmailNever(ls, v) == {}

\* query.filter(Lead.email == email)
MatchEmail(ls, v) == {i \in 1 .. Len(ls) : ls[i].email = v}

\* .first() of a query with no ORDER BY: any matching row, None when there is none
First(ids) == IF ids = {} THEN {NoId} ELSE ids

\* a faulty source lookup: an unknown code falls back to the first source
FindSourceOrFirst(srcs, code) ==
    IF \E i \in 1 .. Len(srcs) : srcs[i] = code
    THEN CHOOSE i \in 1 .. Len(srcs) : srcs[i] = code
    ELSE IF Len(srcs) > 0 THEN 1 ELSE NoId

\* db_session.query(Source).filter(Source.code == source_code).first();
\* Source.code is unique
FindSource(srcs, code) ==
    IF \E i \in 1 .. Len(srcs) : srcs[i] = code
    THEN CHOOSE i \in 1 .. Len(srcs) : srcs[i] = code
    ELSE NoId

\* a faulty link query: the rows of every source
LinksOfAnySource(ws, source) == ws

\* the rows of operator_source_weights of one source
LinksOf(ws, source) == {r \in ws : r.source_id = source}

\* a faulty load filter: assigned contacts are not counted
IsInProgress(c) == c.status = "in_progress"

\* Contact.status.in_(["assigned", "in_progress"])
IsOpen(c) == c.status \in {"assigned", "in_progress"}

\* OperatorService.get_operator_load: the count of the operator's open contacts
get_operator_load(cs, operator_id) ==
    Cardinality({i \in 1 .. Len(cs) :
                    cs[i].operator_id = operator_id /\ IsOpen(cs[i])})

\* a faulty capacity test: an operator at its limit passes
UnderCapacityInclusive(load, max_concurrent) == load <= max_concurrent

\* `if load < op.max_concurrent`
UnderCapacity(load, max_concurrent) == load < max_concurrent

\* the orders in which a query with no ORDER BY can return the rows of ids
Orders(ids) ==
    {s \in [1 .. Cardinality(ids) -> ids] :
        \A i, j \in 1 .. Cardinality(ids) : i # j => s[i] # s[j]}

----------------------------------------------------------------------------
(* OperatorService.choose_operator_weighted *)

\* weights.get(op.id, 0)
ResolvedWeight(wts, id) == IF id \in DOMAIN wts THEN wts[id] ELSE 0

\* the sum of the resolved weights of eligible[1..n]: `total` for n = Len(eligible),
\* and the cumulative weights random.choices bisects
RECURSIVE CumWeight(_, _, _)
CumWeight(eligible, wts, n) ==
    IF n = 0 THEN 0
    ELSE CumWeight(eligible, wts, n - 1) + ResolvedWeight(wts, eligible[n])

\* random.choice(eligible): eligible[randbelow(len(eligible))]
RandomChoice(eligible) == {eligible[i] : i \in 1 .. Len(eligible)}

\* bisect(cum_weights, x, lo, hi) of random.choices, with 0-based lo and hi as
\* in Python and x in [t, t + 1): `x < a[mid]` is t < cum_weights[mid]
RECURSIVE Bisect(_, _, _, _, _)
Bisect(eligible, wts, t, lo, hi) ==
    IF lo >= hi THEN lo
    ELSE LET mid == (lo + hi) \div 2
         IN  IF t < CumWeight(eligible, wts, mid + 1)
             THEN Bisect(eligible, wts, t, lo, mid)
             ELSE Bisect(eligible, wts, t, mid + 1, hi)

\* a faulty weighted draw: the weights are ignored
RandomChoicesUniform(eligible, wts) == {eligible[i] : i \in 1 .. Len(eligible)}

\* random.choices(operators, weights=probs, k=1)[0]:
\* operators[bisect(cum_weights, random() * total, 0, n - 1)] with random() in
\* [0, 1).  The weights are whole numbers here, so the draw falls in one of
\* `total` equal intervals, t = 0 .. total - 1, on each of which the
\* bisection is constant.
RandomChoices(eligible, wts) ==
    LET n == Len(eligible)
        total == CumWeight(eligible, wts, n)
    IN  {eligible[Bisect(eligible, wts, t, 0, n - 1) + 1] : t \in 0 .. total - 1}

\* a faulty selector: no operator when the total is not positive
ChooseNoneOnFallback(eligible, wts) ==
    IF Len(eligible) = 0 THEN {NoId}
    ELSE IF CumWeight(eligible, wts, Len(eligible)) <= 0
         THEN {NoId}
         ELSE RandomChoices(eligible, wts)

\* a faulty selector: the first operator when the total is not positive
ChooseFirstOnFallback(eligible, wts) ==
    IF Len(eligible) = 0 THEN {NoId}
    ELSE IF CumWeight(eligible, wts, Len(eligible)) <= 0
         THEN {eligible[1]}
         ELSE RandomChoices(eligible, wts)

\* the operators choose_operator_weighted can return (NoId: None), one for
\* every value of the random draw
choose_operator_weighted(eligible, wts) ==
    IF Len(eligible) = 0 THEN {NoId}
    ELSE IF CumWeight(eligible, wts, Len(eligible)) <= 0
         THEN RandomChoice(eligible)
         ELSE RandomChoices(eligible, wts)

----------------------------------------------------------------------------
(* RoutingService.route_and_create_contact, statement by statement *)

Set(p, f, v) == [loc EXCEPT ![p][f] = v]

\* ContactRepository.create: the call of route_and_create_contact with the
\* fields of `data`; data.status is not passed on
route_and_create_contact(p, data, source_code) ==
    /\ pc[p] = "idle"
    /\ pc' = [pc EXCEPT ![p] = "find_external_id"]
    /\ loc' = [loc EXCEPT ![p] =
                  [IdleLoc EXCEPT !.external_id = data.external_id,
                                  !.phone = data.phone,
                                  !.email = data.email,
                                  !.status = data.status,
                                  !.payload = data.payload,
                                  !.source_code = source_code,
                                  !.pre_leads = leads,
                                  !.pre_contacts = contacts]]
    /\ UNCHANGED <<operators, sources, weights, leads, contacts, memo>>

\* if external_id: lead = query.filter(Lead.external_id == external_id).first()
find_by_external_id(p) ==
    /\ pc[p] = "find_external_id"
    /\ \E l \in (IF Truthy(loc[p].external_id)
                 THEN First(MatchExternalId(leads, loc[p].external_id))
                 ELSE {NoId}) :
          loc' = Set(p, "lead", l)
    /\ pc' = [pc EXCEPT ![p] = "find_phone"]
    /\ UNCHANGED <<operators, sources, weights, leads, contacts, memo>>

\* a faulty phone step: a phone match replaces the external id match
find_by_phone_always(p) ==
    /\ pc[p] = "find_phone"
    /\ \E l \in (IF Truthy(loc[p].phone) /\ MatchPhone(leads, loc[p].phone) # {}
                 THEN MatchPhone(leads, loc[p].phone)
                 ELSE {loc[p].lead}) :
          loc' = Set(p, "lead", l)
    /\ pc' = [pc EXCEPT ![p] = "find_email"]
    /\ UNCHANGED <<operators, sources, weights, leads, contacts, memo>>

\* if not lead and phone: lead = query.filter(Lead.phone == phone).first()
find_by_phone(p) ==
    /\ pc[p] = "find_phone"
    /\ \E l \in (IF loc[p].lead = NoId /\ Truthy(loc[p].phone)
                 THEN First(MatchPhone(leads, loc[p].phone))
                 ELSE {loc[p].lead}) :
          loc' = Set(p, "lead", l)
    /\ pc' = [pc EXCEPT ![p] = "find_email"]
    /\ UNCHANGED <<operators, sources, weights, leads, contacts, memo>>

\* if not lead and email: lead = query.filter(Lead.email == email).first()
find_by_email(p) ==
    /\ pc[p] = "find_email"
    /\ \E l \in (IF loc[p].lead = NoId /\ Truthy(loc[p].email)
                 THEN First(MatchEmail(leads, loc[p].email))
                 ELSE {loc[p].lead}) :
          loc' = Set(p, "lead", l)
    /\ pc' = [pc EXCEPT ![p] = "new_lead"]
    /\ UNCHANGED <<operators, sources, weights, leads, contacts, memo>>

\* a faulty find_or_create_lead: the lead found gets the fields of the call
new_lead_updating(p) ==
    /\ pc[p] = "new_lead"
    /\ IF loc[p].lead # NoId
       THEN /\ leads' = [leads EXCEPT ![loc[p].lead] =
                            LeadRow(loc[p].external_id, loc[p].phone, loc[p].email)]
            /\ UNCHANGED loc
       ELSE /\ leads' = Append(leads, LeadRow(loc[p].external_id,
                                              loc[p].phone, loc[p].email))
            /\ loc' = [loc EXCEPT ![p].lead = Len(leads) + 1,
                                  ![p].created = TRUE]
    /\ pc' = [pc EXCEPT ![p] = "source"]
    /\ UNCHANGED <<operators, sources, weights, contacts, memo>>

\* if lead: return lead; otherwise add the new Lead and commit
new_lead(p) ==
    /\ pc[p] = "new_lead"
    /\ IF loc[p].lead # NoId
       THEN /\ UNCHANGED <<leads, loc>>
       ELSE /\ leads' = Append(leads, LeadRow(loc[p].external_id,
                                              loc[p].phone, loc[p].email))
            /\ loc' = [loc EXCEPT ![p].lead = Len(leads) + 1,
                                  ![p].created = TRUE]
    /\ pc' = [pc EXCEPT ![p] = "source"]
    /\ UNCHANGED <<operators, sources, weights, contacts, memo>>

\* a faulty source step: the call goes on without a source
find_source_lenient(p) ==
    /\ pc[p] = "source"
    /\ loc' = Set(p, "source", FindSource(sources, loc[p].source_code))
    /\ pc' = [pc EXCEPT ![p] = "links"]
    /\ UNCHANGED <<operators, sources, weights, leads, contacts, memo>>

\* source = ...first(); if not source: raise ValueError
find_source(p) ==
    /\ pc[p] = "source"
    /\ LET source == FindSource(sources, loc[p].source_code)
       IN  IF source = NoId
           THEN /\ loc' = Set(p, "error", "SourceNotFound")
                /\ pc' = [pc EXCEPT ![p] = "failed"]
           ELSE /\ loc' = Set(p, "source", source)
                /\ pc' = [pc EXCEPT ![p] = "links"]
    /\ UNCHANGED <<operators, sources, weights, leads, contacts, memo>>

\* eligible_operators_for_source: links = ...all(); operator_ids = [...];
\* if not operator_ids: return []
query_links(p) ==
    /\ pc[p] = "links"
    /\ LET operator_ids == {r.operator_id : r \in LinksOf(weights, loc[p].source)}
       IN  /\ loc' = [loc EXCEPT ![p].operator_ids = operator_ids,
                                 ![p].eligible = <<>>]
           /\ pc' = [pc EXCEPT ![p] =
                        IF operator_ids = {} THEN "weights" ELSE "operators"]
    /\ UNCHANGED <<operators, sources, weights, leads, contacts, memo>>

\* ops = db.query(Operator).filter(Operator.id.in_(operator_ids)).all():
\* the rows as they are now, in any order
query_operators(p) ==
    /\ pc[p] = "operators"
    /\ \E order \in Orders(loc[p].operator_ids \cap DOMAIN operators) :
          /\ loc' = [loc EXCEPT
                        ![p].ops = [i \in 1 .. Len(order) |->
                                       [id |-> order[i],
                                        is_active |-> operators[order[i]].is_active,
                                        max_concurrent |->
                                            operators[order[i]].max_concurrent]],
                        ![p].k = 1]
          /\ pc' = [pc EXCEPT ![p] = IF Len(order) = 0 THEN "weights" ELSE "load"]
    /\ UNCHANGED <<operators, sources, weights, leads, contacts, memo>>

\* a faulty turn of the loop: an inactive op is not skipped
filter_operator_any(p) ==
    /\ pc[p] = "load"
    /\ LET op == loc[p].ops[loc[p].k]
           keep == UnderCapacity(get_operator_load(contacts, op.id),
                                 op.max_concurrent)
       IN  loc' = [loc EXCEPT
                      ![p].eligible = IF keep THEN Append(@, op.id) ELSE @,
                      ![p].k = @ + 1]
    /\ pc' = [pc EXCEPT ![p] =
                 IF loc[p].k = Len(loc[p].ops) THEN "weights" ELSE "load"]
    /\ UNCHANGED <<operators, sources, weights, leads, contacts, memo>>

\* one turn of `for op in ops`: skip an inactive op, else count its open
\* contacts and keep it when load < op.max_concurrent
filter_operator(p) ==
    /\ pc[p] = "load"
    /\ LET op == loc[p].ops[loc[p].k]
           keep == /\ op.is_active
                   /\ UnderCapacity(get_operator_load(contacts, op.id),
                                    op.max_concurrent)
       IN  loc' = [loc EXCEPT
                      ![p].eligible = IF keep THEN Append(@, op.id) ELSE @,
                      ![p].k = @ + 1]
    /\ pc' = [pc EXCEPT ![p] =
                 IF loc[p].k = Len(loc[p].ops) THEN "weights" ELSE "load"]
    /\ UNCHANGED <<operators, sources, weights, leads, contacts, memo>>

\* a faulty weight read: an eligible operator without a row is an error
get_weights_for_source_strict(p) ==
    /\ pc[p] = "weights"
    /\ LET rows == LinksOf(weights, loc[p].source)
       IN  IF \E i \in 1 .. Len(loc[p].eligible) :
                 ~\E r \in rows : r.operator_id = loc[p].eligible[i]
           THEN /\ loc' = Set(p, "error", "KeyError")
                /\ pc' = [pc EXCEPT ![p] = "failed"]
           ELSE /\ loc' = Set(p, "wts",
                              [id \in {r.operator_id : r \in rows} |->
                                  (CHOOSE r \in rows : r.operator_id = id).weight])
                /\ pc' = [pc EXCEPT ![p] = "choose"]
    /\ UNCHANGED <<operators, sources, weights, leads, contacts, memo>>

\* get_weights_for_source: {r.operator_id: r.weight for r in rows}
get_weights_for_source(p) ==
    /\ pc[p] = "weights"
    /\ LET rows == LinksOf(weights, loc[p].source)
       IN  loc' = Set(p, "wts",
                      [id \in {r.operator_id : r \in rows} |->
                          (CHOOSE r \in rows : r.operator_id = id).weight])
    /\ pc' = [pc EXCEPT ![p] = "choose"]
    /\ UNCHANGED <<operators, sources, weights, leads, contacts, memo>>

\* a faulty choice: the chosen operator is taken out of service
choose_operator_deactivating(p) ==
    /\ pc[p] = "choose"
    /\ \E operator \in choose_operator_weighted(loc[p].eligible, loc[p].wts) :
          /\ loc' = Set(p, "operator", operator)
          /\ operators' = IF operator = NoId THEN operators
                          ELSE [operators EXCEPT ![operator].is_active = FALSE]
    /\ pc' = [pc EXCEPT ![p] = "create"]
    /\ UNCHANGED <<sources, weights, leads, contacts, memo>>

\* operator = OperatorService.choose_operator_weighted(eligible, weights)
choose_operator(p) ==
    /\ pc[p] = "choose"
    /\ \E operator \in choose_operator_weighted(loc[p].eligible, loc[p].wts) :
          loc' = Set(p, "operator", operator)
    /\ pc' = [pc EXCEPT ![p] = "create"]
    /\ UNCHANGED <<operators, sources, weights, leads, contacts, memo>>

\* a faulty create_contact: the earlier Contacts of the lead are closed
create_contact_closing(p) ==
    /\ pc[p] = "create"
    /\ contacts' = Append([i \in 1 .. Len(contacts) |->
                              IF contacts[i].lead_id = loc[p].lead
                              THEN [contacts[i] EXCEPT !.status = "closed"]
                              ELSE contacts[i]],
                          NewContact(loc[p].lead, loc[p].source, loc[p].operator,
                                     loc[p].payload))
    /\ loc' = Set(p, "contact", Len(contacts) + 1)
    /\ pc' = [pc EXCEPT ![p] = "done"]
    /\ UNCHANGED <<operators, sources, weights, leads, memo>>

\* ContactService.create_contact: add the Contact, commit, return it
create_contact(p) ==
    /\ pc[p] = "create"
    /\ contacts' = Append(contacts,
                          NewContact(loc[p].lead, loc[p].source, loc[p].operator,
                                     loc[p].payload))
    /\ loc' = Set(p, "contact", Len(contacts) + 1)
    /\ pc' = [pc EXCEPT ![p] = "done"]
    /\ UNCHANGED <<operators, sources, weights, leads, memo>>

\* ContactService.create_contact when db.commit() raises: the Contact is not
\* written and the error leaves route_and_create_contact
create_contact_fails(p) ==
    /\ pc[p] = "create"
    /\ loc' = Set(p, "error", "PersistenceFailure")
    /\ pc' = [pc EXCEPT ![p] = "failed"]
    /\ UNCHANGED <<operators, sources, weights, leads, contacts, memo>>

\* the call is over (it returned the Contact or raised): the session is closed
Finish(p) ==
    /\ pc[p] \in {"done", "failed"}
    /\ pc' = [pc EXCEPT ![p] = "idle"]
    /\ loc' = [loc EXCEPT ![p] = IdleLoc]
    /\ UNCHANGED <<operators, sources, weights, leads, contacts>>

Return(p) == Finish(p) /\ UNCHANGED memo

\* no call is remembered
NoMemo == [external_id |-> None, phone |-> None, email |-> None, lead |-> NoId,
           failed |-> FALSE, leads |-> 0, overlapped |-> FALSE]

\* the finished call of process p: its identifying fields, the lead it resolved
\* to, whether it failed, and the number of Lead rows when it ended
Finished(p) ==
    [external_id |-> loc[p].external_id, phone |-> loc[p].phone,
     email |-> loc[p].email, lead |-> loc[p].lead,
     failed |-> (pc[p] = "failed"), leads |-> Len(leads),
     overlapped |-> memo.overlapped]

\* the call ends and may be the one that is remembered
ReturnRemembered(p) == Finish(p) /\ memo' \in {memo, Finished(p)}

----------------------------------------------------------------------------
(* OperatorRepository.update *)

\* OperatorUpdate: a field that is None is <<>>, a field with value v is <<v>>
OperatorUpdate ==
    [max_concurrent : {<<>>} \cup {<<n>> : n \in 0 .. MaxCap},
     is_active : {<<>>, <<TRUE>>, <<FALSE>>}]

\* a call has read the operators and has not yet written its Contact
ReadNotWritten(p) == pc[p] \in {"load", "weights", "choose", "create"}

\* db_operator = get(Operator, operator_id); the fields that are not None are
\* assigned; commit.  History (memo.overlapped): the update lowers
\* max_concurrent while a call has read the operators and not yet written.
update_operator(operator_id, data) ==
    /\ operator_id \in DOMAIN operators
    /\ operators' =
          [operators EXCEPT
              ![operator_id] =
                  [max_concurrent |-> IF data.max_concurrent # <<>>
                                      THEN data.max_concurrent[1]
                                      ELSE @.max_concurrent,
                   is_active |-> IF data.is_active # <<>>
                                 THEN data.is_active[1]
                                 ELSE @.is_active]]
    /\ memo' = [memo EXCEPT !.overlapped =
                   IF data.max_concurrent = <<>> THEN @
                   ELSE \/ @
                        \/ /\ data.max_concurrent[1]
                                  < operators[operator_id].max_concurrent
                           /\ \E p \in Procs : ReadNotWritten(p)]
    /\ UNCHANGED <<sources, weights, leads, contacts, pc, loc>>

----------------------------------------------------------------------------
(* WeightRepository.set_weights *)

\* the rows set_weights adds for the items of `weights`
NewRows(source_id, new_weights) ==
    {[operator_id |-> new_weights[i].operator_id, source_id |-> source_id,
      weight |-> new_weights[i].weight] : i \in 1 .. Len(new_weights)}

\* two items of `weights` have the same operator_id: two rows with one primary key
SameKeyTwice(new_weights) ==
    \E i, j \in 1 .. Len(new_weights) :
        i # j /\ new_weights[i].operator_id = new_weights[j].operator_id

\* a faulty replacement: only the rows that get a new weight are removed
MergeRows(ws, rows, new) ==
    {r \in ws : ~\E n \in new : /\ n.operator_id = r.operator_id
                                /\ n.source_id = r.source_id} \cup new

\* the table after the flush: the selected rows deleted, the new rows added
ReplaceRows(ws, rows, new) == (ws \ rows) \cup new

\* WeightRepository.set_weights is called
set_weights(p, source_id, new_weights) ==
    /\ pc[p] = "idle"
    /\ pc' = [pc EXCEPT ![p] = "select_weights"]
    /\ loc' = [loc EXCEPT ![p] = [IdleLoc EXCEPT !.source_id = source_id,
                                                 !.new_weights = new_weights,
                                                 !.pre_weights = weights]]
    /\ UNCHANGED <<operators, sources, weights, leads, contacts, memo>>

\* select(OperatorSourceWeight).where(source_id == source_id); the rows are
\* marked for deletion
select_weights(p) ==
    /\ pc[p] = "select_weights"
    /\ loc' = Set(p, "rows", LinksOf(weights, loc[p].source_id))
    /\ pc' = [pc EXCEPT ![p] = "commit_weights"]
    /\ UNCHANGED <<operators, sources, weights, leads, contacts, memo>>

\* db_session.commit(): the deletes and the inserts are flushed in one
\* transaction; a primary key that occurs twice makes the flush fail, and
\* nothing is committed
commit_weights(p) ==
    /\ pc[p] = "commit_weights"
    /\ LET new == NewRows(loc[p].source_id, loc[p].new_weights)
           kept == weights \ loc[p].rows
           clash == \E r \in kept, n \in new : /\ r.operator_id = n.operator_id
                                               /\ r.source_id = n.source_id
       IN  IF SameKeyTwice(loc[p].new_weights) \/ clash
           THEN /\ loc' = Set(p, "error", "IntegrityError")
                /\ pc' = [pc EXCEPT ![p] = "weights_failed"]
                /\ UNCHANGED weights
           ELSE /\ weights' = ReplaceRows(weights, loc[p].rows, new)
                /\ pc' = [pc EXCEPT ![p] = "weights_done"]
                /\ UNCHANGED loc
    /\ UNCHANGED <<operators, sources, leads, contacts, memo>>

\* set_weights is over: the session is closed
set_weights_return(p) ==
    /\ pc[p] \in {"weights_done", "weights_failed"}
    /\ pc' = [pc EXCEPT ![p] = "idle"]
    /\ loc' = [loc EXCEPT ![p] = IdleLoc]
    /\ UNCHANGED <<operators, sources, weights, leads, contacts, memo>>

----------------------------------------------------------------------------
(* The states the routing core starts from: no lead, no contact, and the   *)
(* operators, the source and the weights the administrative endpoints have *)
(* set up.                                                                 *)

\* OperatorSourceWeightCreate.weight is any number: negative weights are stored
Weights == -1 .. MaxWeight

OperatorRows == [is_active : BOOLEAN, max_concurrent : 0 .. MaxCap]

WeightRows == [operator_id : OperatorIds, source_id : {1}, weight : Weights]

\* the primary key of operator_source_weights: (operator_id, source_id)
WeightTables ==
    {ws \in SUBSET WeightRows :
        \A r1, r2 \in ws :
            (r1.operator_id = r2.operator_id /\ r1.source_id = r2.source_id)
                => r1 = r2}

Setup(ops, ws) ==
    /\ operators = ops
    /\ sources = <<"tg">>
    /\ weights = ws
    /\ leads = <<>>
    /\ contacts = <<>>
    /\ pc = [p \in Procs |-> "idle"]
    /\ loc = [p \in Procs |-> IdleLoc]
    /\ memo = NoMemo

\* any operators and any weights for the source
Init == \E ops \in [OperatorIds -> OperatorRows], ws \in WeightTables : Setup(ops, ws)

\* every operator active, with capacity, and linked to the source
LeadInit ==
    Setup([id \in OperatorIds |-> [is_active |-> TRUE, max_concurrent |-> MaxCap]],
          {[operator_id |-> id, source_id |-> 1, weight |-> MaxWeight] :
              id \in OperatorIds})

\* every operator active and linked to the source, with any capacity
ActiveInit ==
    \E caps \in [OperatorIds -> 0 .. MaxCap] :
        Setup([id \in OperatorIds |-> [is_active |-> TRUE, max_concurrent |-> caps[id]]],
              {[operator_id |-> id, source_id |-> 1, weight |-> MaxWeight] :
                  id \in OperatorIds})

\* the selector alone: any list of distinct operators and any weight mapping,
\* at the call of choose_operator_weighted
DrawIds == 1 .. NumDrawOperators

EligibleLists == UNION {Orders(ids) : ids \in SUBSET DrawIds}

WeightDicts == UNION {[ids -> -1 .. MaxDrawWeight] : ids \in SUBSET DrawIds}

ChooseInit ==
    /\ operators = [id \in OperatorIds |-> [is_active |-> TRUE, max_concurrent |-> MaxCap]]
    /\ sources = <<"tg">>
    /\ weights = {}
    /\ leads = <<>>
    /\ contacts = <<>>
    /\ pc = [p \in Procs |-> IF p = 1 THEN "choose" ELSE "idle"]
    /\ \E eligible \in EligibleLists, wts \in WeightDicts :
          loc = [p \in Procs |->
                    IF p = 1 THEN [IdleLoc EXCEPT !.eligible = eligible, !.wts = wts]
                    ELSE IdleLoc]
    /\ memo = NoMemo

\* two sources, and any weights for them
SourceIds == {1, 2}

WeightInit ==
    /\ operators = [id \in OperatorIds |-> [is_active |-> TRUE, max_concurrent |-> MaxCap]]
    /\ sources = <<"tg", "vk">>
    /\ weights \in {ws \in SUBSET [operator_id : OperatorIds, source_id : SourceIds,
                                    weight : Weights] :
                       \A r1, r2 \in ws :
                           (r1.operator_id = r2.operator_id /\ r1.source_id = r2.source_id)
                               => r1 = r2}
    /\ leads = <<>>
    /\ contacts = <<>>
    /\ pc = [p \in Procs |-> "idle"]
    /\ loc = [p \in Procs |-> IdleLoc]
    /\ memo = NoMemo

\* the eligibility filter alone, at its call for either source: any operators
\* (a weight row may name an operator that does not exist), any links, and
\* contacts of every status
OperatorTables == UNION {[ids -> OperatorRows] : ids \in SUBSET OperatorIds}

LinkTables == SUBSET [operator_id : OperatorIds, source_id : SourceIds, weight : {1}]

ContactRows ==
    [lead_id : {1}, source_id : {1}, operator_id : OperatorIds \cup {NoId},
     status : Status, payload : {EmptyDict}]

ContactTables == UNION {[1 .. n -> ContactRows] : n \in 0 .. MaxEligibleContacts}

EligibleInit ==
    /\ operators \in OperatorTables
    /\ sources = <<"tg", "vk">>
    /\ weights \in LinkTables
    /\ leads = <<LeadRow("x1", None, None)>>
    /\ contacts \in ContactTables
    /\ pc = [p \in Procs |-> IF p = 1 THEN "links" ELSE "idle"]
    /\ \E source \in SourceIds :
          loc = [p \in Procs |->
                    IF p = 1
                    THEN [IdleLoc EXCEPT !.external_id = "x1",
                                         !.source_code = sources[source],
                                         !.lead = 1,
                                         !.source = source,
                                         !.pre_leads = leads,
                                         !.pre_contacts = contacts,
                                         !.pre_weights = weights]
                    ELSE IdleLoc]
    /\ memo = NoMemo

\* the bodies of the weights endpoint: lists of at most MaxItems items
WeightItems == [operator_id : OperatorIds, weight : Weights]

WeightLists == UNION {[1 .. n -> WeightItems] : n \in 0 .. MaxItems}

\* the bodies of the weights endpoint with weight 0 or MaxWeight
SwapLists ==
    {ws \in WeightLists : \A i \in 1 .. Len(ws) : ws[i].weight \in {0, MaxWeight}}

\* the calls in progress
Active == Cardinality({p \in Procs : pc[p] # "idle"})

\* the call can find its lead among the rows there are
Matches(data) ==
    \/ Truthy(data.external_id) /\ MatchExternalId(leads, data.external_id) # {}
    \/ Truthy(data.phone) /\ MatchPhone(leads, data.phone) # {}
    \/ Truthy(data.email) /\ MatchEmail(leads, data.email) # {}

\* the bound on the tables: a call is taken when the rows it may add fit
Admit(data, source_code, maxLeads, maxContacts) ==
    /\ Matches(data) \/ Len(leads) + Active < maxLeads
    /\ FindSource(sources, source_code) = NoId
          \/ Len(contacts) + Active < maxContacts

\* the requests of one known identity, with every status a request can carry
RoutingData ==
    {d \in ContactCreate : /\ d.external_id = "x1" /\ d.phone = None
                           /\ d.email = None /\ d.payload = None}

\* the requests with every combination of identifying fields
LeadData == {d \in ContactCreate : d.status = "new" /\ d.payload = None}

\* the requests identified by external id and phone
RepeatData == {d \in LeadData : d.email = None}

\* the requests of one known identity
RaceData == {d \in RoutingData : d.status = "new"}

\* the requests of one known identity, with every payload
PayloadData ==
    {d \in ContactCreate : /\ d.external_id = "x1" /\ d.phone = None
                           /\ d.email = None /\ d.status = "new"}

----------------------------------------------------------------------------
(* Specifications *)

\* a request arrives: ContactRepository.create calls route_and_create_contact
Request(p, requests, maxLeads, maxContacts) ==
    \E data \in requests, source_code \in SourceCodes :
        /\ pc[p] = "idle"
        /\ Admit(data, source_code, maxLeads, maxContacts)
        /\ route_and_create_contact(p, data, source_code)

\* requests arrive at any time and are served concurrently, one session each
Next ==
    \/ \E p \in Procs : Request(p, RaceData, MaxLeads, MaxContacts)
    \/ \E p \in Procs : find_by_external_id(p)
    \/ \E p \in Procs : find_by_phone(p)
    \/ \E p \in Procs : find_by_email(p)
    \/ \E p \in Procs : new_lead(p)
    \/ \E p \in Procs : find_source(p)
    \/ \E p \in Procs : query_links(p)
    \/ \E p \in Procs : query_operators(p)
    \/ \E p \in Procs : filter_operator(p)
    \/ \E p \in Procs : get_weights_for_source(p)
    \/ \E p \in Procs : choose_operator(p)
    \/ \E p \in Procs : create_contact(p)
    \/ \E p \in Procs : Return(p)

Spec == ActiveInit /\ [][Next]_vars

\* requests are served one after another: every operator and weight setup
SeqNext ==
    \/ Request(1, RoutingData, MaxSeqLeads, MaxSeqContacts)
    \/ find_by_external_id(1)
    \/ find_by_phone(1)
    \/ find_by_email(1)
    \/ new_lead(1)
    \/ find_source(1)
    \/ query_links(1)
    \/ query_operators(1)
    \/ filter_operator(1)
    \/ get_weights_for_source(1)
    \/ choose_operator(1)
    \/ create_contact(1)
    \/ Return(1)

SeqSpec == Init /\ [][SeqNext]_vars

\* requests are served one after another: every combination of identifying fields
LeadNext ==
    \/ Request(1, LeadData, MaxLeadLeads, MaxLeadContacts)
    \/ find_by_external_id(1)
    \/ find_by_phone(1)
    \/ find_by_email(1)
    \/ new_lead(1)
    \/ find_source(1)
    \/ query_links(1)
    \/ query_operators(1)
    \/ filter_operator(1)
    \/ get_weights_for_source(1)
    \/ choose_operator(1)
    \/ create_contact(1)
    \/ Return(1)

LeadSpec == LeadInit /\ [][LeadNext]_vars

\* requests are served one after another, and one finished call is remembered
RepeatNext ==
    \/ Request(1, RepeatData, MaxLeadLeads, MaxLeadContacts)
    \/ find_by_external_id(1)
    \/ find_by_phone(1)
    \/ find_by_email(1)
    \/ new_lead(1)
    \/ find_source(1)
    \/ query_links(1)
    \/ query_operators(1)
    \/ filter_operator(1)
    \/ get_weights_for_source(1)
    \/ choose_operator(1)
    \/ create_contact(1)
    \/ ReturnRemembered(1)

RepeatSpec == LeadInit /\ [][RepeatNext]_vars

\* requests are served one after another: every payload
PayloadNext ==
    \/ Request(1, PayloadData, MaxLeadLeads, MaxLeadContacts)
    \/ find_by_external_id(1)
    \/ find_by_phone(1)
    \/ find_by_email(1)
    \/ new_lead(1)
    \/ find_source(1)
    \/ query_links(1)
    \/ query_operators(1)
    \/ filter_operator(1)
    \/ get_weights_for_source(1)
    \/ choose_operator(1)
    \/ create_contact(1)
    \/ Return(1)

PayloadSpec == LeadInit /\ [][PayloadNext]_vars

\* requests are served one after another, and the write of the Contact can fail
FailNext ==
    \/ Request(1, LeadData, MaxLeadLeads, MaxLeadContacts)
    \/ find_by_external_id(1)
    \/ find_by_phone(1)
    \/ find_by_email(1)
    \/ new_lead(1)
    \/ find_source(1)
    \/ query_links(1)
    \/ query_operators(1)
    \/ filter_operator(1)
    \/ get_weights_for_source(1)
    \/ choose_operator(1)
    \/ create_contact(1)
    \/ create_contact_fails(1)
    \/ Return(1)

FailSpec == LeadInit /\ [][FailNext]_vars

\* the weights of a source are set, one call after another
WeightNext ==
    \/ \E source_id \in SourceIds, new_weights \in WeightLists :
          set_weights(1, source_id, new_weights)
    \/ select_weights(1)
    \/ commit_weights(1)
    \/ set_weights_return(1)

WeightSpec == WeightInit /\ [][WeightNext]_vars

\* eligible_operators_for_source is executed once on the drawn tables
EligibleNext ==
    \/ query_links(1)
    \/ query_operators(1)
    \/ filter_operator(1)

EligibleSpec == EligibleInit /\ [][EligibleNext]_vars

\* requests are served one after another by process 1 while process 2 sets
\* the weights of the source, one call after another
SwapNext ==
    \/ Request(1, RaceData, MaxLeads, MaxContacts)
    \/ find_by_external_id(1)
    \/ find_by_phone(1)
    \/ find_by_email(1)
    \/ new_lead(1)
    \/ find_source(1)
    \/ query_links(1)
    \/ query_operators(1)
    \/ filter_operator(1)
    \/ get_weights_for_source(1)
    \/ choose_operator(1)
    \/ create_contact(1)
    \/ Return(1)
    \/ \E new_weights \in SwapLists : set_weights(2, 1, new_weights)
    \/ select_weights(2)
    \/ commit_weights(2)
    \/ set_weights_return(2)

SwapSpec == LeadInit /\ [][SwapNext]_vars

\* the update does not lower max_concurrent below the open contacts of the
\* operator
NotBelowLoad(operator_id, data) ==
    IF data.max_concurrent = <<>> THEN TRUE
    ELSE get_operator_load(contacts, operator_id) <= data.max_concurrent[1]

\* an operator is updated: the update endpoint calls OperatorRepository.update
UpdateRequest ==
    \E operator_id \in OperatorIds, data \in OperatorUpdate :
        /\ NotBelowLoad(operator_id, data)
        /\ update_operator(operator_id, data)

\* requests are served one after another while operators are updated
UpdateNext ==
    \/ Request(1, RaceData, MaxSeqLeads, MaxSeqContacts)
    \/ find_by_external_id(1)
    \/ find_by_phone(1)
    \/ find_by_email(1)
    \/ new_lead(1)
    \/ find_source(1)
    \/ query_links(1)
    \/ query_operators(1)
    \/ filter_operator(1)
    \/ get_weights_for_source(1)
    \/ choose_operator(1)
    \/ create_contact(1)
    \/ Return(1)
    \/ UpdateRequest

UpdateSpec == ActiveInit /\ [][UpdateNext]_vars

\* the selector is applied once to the drawn arguments
ChooseNext == choose_operator(1)

ChooseSpec == ChooseInit /\ [][ChooseNext]_vars

----------------------------------------------------------------------------
(* What the claims speak of *)

\* the call of p is over: it returned a Contact or raised
Ended(p) == pc[p] \in {"done", "failed"}

\* the call of p has its lead: find_or_create_lead has returned
Resolved(p) ==
    pc[p] \in {"source", "links", "operators", "load", "weights", "choose",
               "create", "done", "failed"}

\* the source code of the call names a Source
KnownSource(p) == \E i \in 1 .. Len(sources) : sources[i] = loc[p].source_code

\* the open contacts of an operator among the rows cs
OpenContacts(cs, id) ==
    Cardinality({i \in 1 .. Len(cs) :
                    /\ cs[i].operator_id = id
                    /\ cs[i].status \in {"assigned", "in_progress"}})

\* the operators that were eligible for the source of the call when it began:
\* linked to the source, active, and below their capacity
EligibleBefore(p) ==
    {id \in DOMAIN operators :
        /\ \E r \in weights :
              /\ r.operator_id = id
              /\ r.source_id \in 1 .. Len(sources)
              /\ sources[r.source_id] = loc[p].source_code
        /\ operators[id].is_active
        /\ OpenContacts(loc[p].pre_contacts, id) < operators[id].max_concurrent}

\* the Contact the call of p returned
Returned(p) == contacts[loc[p].contact]

----------------------------------------------------------------------------
(* C1: at all times, also under concurrent calls, no operator has more     *)
(* open contacts (assigned, in_progress) than its max_concurrent.          *)
C1_CapacityRespected ==
    \A id \in DOMAIN operators :
        OpenContacts(contacts, id) <= operators[id].max_concurrent

(* C2, as stated: a call that carries a non-empty key and has the fields   *)
(* of an earlier call resolves to the lead of that call and creates none.  *)
C2_RepeatSameLead ==
    \A p \in Procs :
        (/\ Resolved(p)
         /\ memo.lead # NoId
         /\ loc[p].external_id = memo.external_id
         /\ loc[p].phone = memo.phone
         /\ loc[p].email = memo.email
         /\ Truthy(loc[p].external_id) \/ Truthy(loc[p].phone) \/ Truthy(loc[p].email))
        => (loc[p].lead = memo.lead /\ ~loc[p].created)

(* C2, amended: such a call creates no new Lead, and it resolves to the    *)
(* lead of the earlier call when no Lead was created between the end of    *)
(* that call and its own beginning; the earlier call may have failed at    *)
(* the source lookup.                                                      *)
C2_RepeatSameLeadUnlessLeadAdded ==
    \A p \in Procs :
        (/\ Resolved(p)
         /\ memo.lead # NoId
         /\ loc[p].external_id = memo.external_id
         /\ loc[p].phone = memo.phone
         /\ loc[p].email = memo.email
         /\ Truthy(loc[p].external_id) \/ Truthy(loc[p].phone) \/ Truthy(loc[p].email))
        => /\ ~loc[p].created
           /\ leads = loc[p].pre_leads
           /\ Len(loc[p].pre_leads) = memo.leads => loc[p].lead = memo.lead

\* a call repeats the fields of an earlier call that failed at the source
\* lookup and had created the one lead, and has resolved to that lead
C2_Witness ==
    /\ Resolved(1)
    /\ memo.failed
    /\ memo.lead = 1
    /\ Len(leads) = 1
    /\ loc[1].phone = memo.phone /\ Truthy(loc[1].phone)
    /\ loc[1].external_id = memo.external_id
    /\ loc[1].email = memo.email
    /\ loc[1].lead = 1

(* C3: a call with a source code that matches no Source fails with the     *)
(* source-not-found error, and the Contact rows are those of before.       *)
C3_UnknownSourceNoContact ==
    \A p \in Procs :
        (pc[p] # "idle" /\ ~KnownSource(p))
        => /\ contacts = loc[p].pre_contacts
           /\ pc[p] # "done"
           /\ Ended(p) => (pc[p] = "failed" /\ loc[p].error = "SourceNotFound")

\* a call with an unknown code has failed, with contacts in the table
C3_Witness ==
    /\ pc[1] = "failed"
    /\ loc[1].error = "SourceNotFound"
    /\ loc[1].source_code = "zz"
    /\ Len(contacts) >= 2

(* C4: when the call fails because the source code is unknown, no write    *)
(* has occurred: Leads and Contacts are those of before the call.          *)
C4_NoWritesOnUnknownSource ==
    \A p \in Procs :
        pc[p] = "failed"
        => (leads = loc[p].pre_leads /\ contacts = loc[p].pre_contacts)

(* C5: when the source exists and no operator is eligible for it, the call *)
(* does not fail: it adds and returns a Contact with no operator and       *)
(* status new.                                                             *)
C5_UnassignedWhenNoneEligible ==
    \A p \in Procs :
        (Ended(p) /\ KnownSource(p) /\ EligibleBefore(p) = {})
        => /\ pc[p] = "done"
           /\ loc[p].contact = Len(contacts)
           /\ Len(contacts) = Len(loc[p].pre_contacts) + 1
           /\ Returned(p).operator_id = NoId
           /\ Returned(p).status = "new"

\* the call returned, and an active operator linked to the source was at
\* its capacity when the call began
C5_Witness ==
    /\ pc[1] = "done"
    /\ EligibleBefore(1) = {}
    /\ \E id \in DOMAIN operators :
          /\ operators[id].is_active
          /\ operators[id].max_concurrent > 0
          /\ OpenContacts(loc[1].pre_contacts, id) = operators[id].max_concurrent
    /\ Returned(1).operator_id = NoId

(* C6: every Contact the routing creates has status assigned if and only   *)
(* if it has an operator, and status new if and only if it has none,       *)
(* whatever status the request carried.                                    *)
C6_AssignedIffOperator ==
    /\ \A i \in 1 .. Len(contacts) :
          /\ contacts[i].status = "assigned" <=> contacts[i].operator_id # NoId
          /\ contacts[i].status = "new" <=> contacts[i].operator_id = NoId
    /\ \A p \in Procs :
          pc[p] = "done"
          => Returned(p).status =
                 IF Returned(p).operator_id # NoId THEN "assigned" ELSE "new"

\* a request that carried status closed got a Contact with an operator
C6_Witness ==
    /\ pc[1] = "done"
    /\ loc[1].status = "closed"
    /\ Returned(1).operator_id # NoId
    /\ Returned(1).status = "assigned"

(* C7: when exactly one operator linked to the source is eligible, the new *)
(* Contact is assigned to that operator, whatever the draw and the weights.*)
C7_OnlyEligibleIsAssigned ==
    \A p \in Procs :
        (Ended(p) /\ KnownSource(p) /\ Cardinality(EligibleBefore(p)) = 1)
        => /\ pc[p] = "done"
           /\ Returned(p).operator_id \in EligibleBefore(p)
           /\ Returned(p).status = "assigned"

\* A is active and at its capacity, B is the one eligible operator and has
\* weight 0 while A has a positive weight: the Contact went to B
C7_Witness ==
    /\ pc[1] = "done"
    /\ \E a, b \in DOMAIN operators :
          /\ a # b
          /\ EligibleBefore(1) = {b}
          /\ operators[a].is_active
          /\ operators[a].max_concurrent > 0
          /\ OpenContacts(loc[1].pre_contacts, a) = operators[a].max_concurrent
          /\ [operator_id |-> a, source_id |-> 1, weight |-> 1] \in weights
          /\ [operator_id |-> b, source_id |-> 1, weight |-> 0] \in weights
          /\ Returned(1).operator_id = b

\* the resolved weights of the eligible operators of the call sum to <= 0
NoPositiveTotal(p) ==
    CumWeight(loc[p].eligible, loc[p].wts, Len(loc[p].eligible)) <= 0

(* C8: with a non-empty eligible list whose resolved weights sum to <= 0,  *)
(* choose_operator_weighted returns an operator of the list, never None,   *)
(* and every operator of the list can be the one returned.                 *)
C8_FallbackAnyEligible ==
    \A p \in Procs :
        (Len(loc[p].eligible) > 0 /\ NoPositiveTotal(p))
        => /\ pc[p] = "choose"
              => \A i \in 1 .. Len(loc[p].eligible) :
                    ENABLED (choose_operator(p)
                             /\ loc'[p].operator = loc[p].eligible[i])
           /\ pc[p] = "create"
              => /\ loc[p].operator # NoId
                 /\ \E i \in 1 .. Len(loc[p].eligible) :
                       loc[p].eligible[i] = loc[p].operator

\* three eligible operators, one without a weight entry, one with a positive
\* and one with a negative weight, total 0: the last of the list was returned
C8_Witness ==
    /\ pc[1] = "create"
    /\ Len(loc[1].eligible) = 3
    /\ NoPositiveTotal(1)
    /\ Cardinality(DOMAIN loc[1].wts) = 2
    /\ \E id \in DOMAIN loc[1].wts : loc[1].wts[id] > 0
    /\ \E i \in 1 .. 3 : loc[1].eligible[i] \notin DOMAIN loc[1].wts
    /\ loc[1].operator = loc[1].eligible[3]

\* what the claim C10 says find_or_create_lead does for the call of p, given
\* which of its keys count as provided
FirstMatchWins(p, useExternalId, usePhone, useEmail) ==
    LET before == loc[p].pre_leads
        byExternalId ==
            {i \in 1 .. Len(before) : before[i].external_id = loc[p].external_id}
        byPhone == {i \in 1 .. Len(before) : before[i].phone = loc[p].phone}
        byEmail == {i \in 1 .. Len(before) : before[i].email = loc[p].email}
        found(ids) == loc[p].lead \in ids /\ ~loc[p].created /\ leads = before
    IN  IF useExternalId /\ byExternalId # {} THEN found(byExternalId)
        ELSE IF usePhone /\ byPhone # {} THEN found(byPhone)
        ELSE IF useEmail /\ byEmail # {} THEN found(byEmail)
        ELSE /\ loc[p].created
             /\ loc[p].lead = Len(before) + 1
             /\ leads = Append(before, [external_id |-> loc[p].external_id,
                                        phone |-> loc[p].phone,
                                        email |-> loc[p].email])

(* C10, as stated: the keys are tried in the order external_id (when       *)
(* present and not empty), phone (when provided), email (when provided);   *)
(* the first key that matches gives the lead; a Lead is created only when  *)
(* no provided key matches.                                                *)
C10_FirstProvidedMatchWins ==
    \A p \in Procs :
        Resolved(p)
        => FirstMatchWins(p, Truthy(loc[p].external_id),
                          loc[p].phone # None, loc[p].email # None)

(* C10, amended: the same with `provided` read as present and not empty    *)
(* for each of the three keys: an empty phone is not tried either.         *)
C10_FirstNonEmptyMatchWins ==
    \A p \in Procs :
        Resolved(p)
        => FirstMatchWins(p, Truthy(loc[p].external_id),
                          Truthy(loc[p].phone), Truthy(loc[p].email))

\* the external_id of the call matches one Lead and its phone another: the
\* call resolved to the Lead of the external_id
C10_Witness ==
    /\ Resolved(1)
    /\ Len(leads) = 2
    /\ \E i, j \in 1 .. 2 :
          /\ i # j
          /\ Truthy(loc[1].external_id) /\ leads[i].external_id = loc[1].external_id
          /\ Truthy(loc[1].phone) /\ leads[j].phone = loc[1].phone
          /\ leads[i].phone # loc[1].phone
          /\ loc[1].lead = i
    /\ ~loc[1].created

\* the call of p carries no identifying field
Anonymous(p) ==
    loc[p].external_id = None /\ loc[p].phone = None /\ loc[p].email = None

(* C11: a call with external_id, phone and email all absent raises no      *)
(* error for an existing source and adds one new Lead with the three       *)
(* fields null, distinct from every Lead there was, and one Contact of     *)
(* that Lead: N such calls leave N more Leads and N more Contacts.         *)
C11_AnonymousCallAddsLead ==
    \A p \in Procs :
        (Anonymous(p) /\ Resolved(p))
        => /\ loc[p].created
           /\ loc[p].lead = Len(loc[p].pre_leads) + 1
           /\ leads = Append(loc[p].pre_leads,
                             [external_id |-> None, phone |-> None, email |-> None])
           /\ (Ended(p) /\ KnownSource(p))
              => /\ pc[p] = "done"
                 /\ Len(contacts) = Len(loc[p].pre_contacts) + 1
                 /\ Returned(p).lead_id = loc[p].lead

\* the second anonymous call for the source has returned: two anonymous
\* Leads, and two Contacts, one of each
C11_Witness ==
    /\ pc[1] = "done"
    /\ Anonymous(1)
    /\ Len(leads) = 2
    /\ \A i \in 1 .. 2 :
          leads[i] = [external_id |-> None, phone |-> None, email |-> None]
    /\ Len(contacts) = 2
    /\ contacts[1].lead_id = 1
    /\ contacts[2].lead_id = 2

(* C12, as stated: the payload of the Contact the call created is the      *)
(* payload of the call, also when that is absent or the empty object.      *)
C12_PayloadVerbatim ==
    \A p \in Procs : pc[p] = "done" => Returned(p).payload = loc[p].payload

(* C12, amended: the payload of the Contact is the payload of the call,    *)
(* except that an absent payload is stored as the empty object.            *)
C12_PayloadVerbatimOrEmpty ==
    \A p \in Procs :
        pc[p] = "done"
        => Returned(p).payload =
               IF loc[p].payload = None THEN EmptyDict ELSE loc[p].payload

\* a call with a payload with content has returned, after one with none
C12_Witness ==
    /\ pc[1] = "done"
    /\ loc[1].payload \notin {None, EmptyDict}
    /\ loc[1].contact = 2
    /\ contacts[2].payload = loc[1].payload
    /\ contacts[1].payload = EmptyDict

(* C13: when the write of the Contact fails, the call is aborted with no   *)
(* partial commit: the Leads are those of before the call, so the Lead     *)
(* the call created is not persisted.                                      *)
C13_NoLeadWithoutContact ==
    \A p \in Procs :
        (pc[p] = "failed" /\ loc[p].error = "PersistenceFailure")
        => (leads = loc[p].pre_leads /\ contacts = loc[p].pre_contacts)

(* C14: after set_weights(source_id, W) has completed, the rows of the     *)
(* source are exactly the rows of W, the rows of every other source are    *)
(* those of before, and no (operator_id, source_id) pair has two rows; a   *)
(* W that names an operator twice makes the call fail, and after a failed  *)
(* call the rows are those of before.                                      *)
C14_SetWeightsReplaces ==
    /\ \A r1, r2 \in weights :
          (r1.operator_id = r2.operator_id /\ r1.source_id = r2.source_id)
              => r1 = r2
    /\ \A p \in Procs :
          /\ pc[p] = "weights_done"
             => /\ {r \in weights : r.source_id = loc[p].source_id}
                      = {[operator_id |-> loc[p].new_weights[i].operator_id,
                          source_id |-> loc[p].source_id,
                          weight |-> loc[p].new_weights[i].weight] :
                            i \in 1 .. Len(loc[p].new_weights)}
                /\ {r \in weights : r.source_id # loc[p].source_id}
                      = {r \in loc[p].pre_weights : r.source_id # loc[p].source_id}
          /\ pc[p] = "weights_failed" => weights = loc[p].pre_weights
          /\ (pc[p] \in {"weights_done", "weights_failed"}
                /\ \E i, j \in 1 .. Len(loc[p].new_weights) :
                      /\ i # j
                      /\ loc[p].new_weights[i].operator_id
                             = loc[p].new_weights[j].operator_id)
             => pc[p] = "weights_failed"

\* a source with two rows got a one-item list for one of its operators: the
\* other row is gone, and the other source still has its rows
C14_Witness ==
    /\ pc[1] = "weights_done"
    /\ Len(loc[1].new_weights) = 1
    /\ Cardinality({r \in loc[1].pre_weights : r.source_id = loc[1].source_id}) = 2
    /\ Cardinality({r \in weights : r.source_id = loc[1].source_id}) = 1
    /\ \E r \in loc[1].pre_weights :
          /\ r.source_id = loc[1].source_id
          /\ r.operator_id = loc[1].new_weights[1].operator_id
          /\ r.weight # loc[1].new_weights[1].weight
    /\ \E r \in weights : r.source_id # loc[1].source_id

(* C15: in every reachable state, every Contact has the id of an existing  *)
(* Lead as its lead_id and the id of an existing Source as its source_id.  *)
C15_ContactRefersToLeadAndSource ==
    \A i \in 1 .. Len(contacts) :
        /\ contacts[i].lead_id \in 1 .. Len(leads)
        /\ contacts[i].source_id \in 1 .. Len(sources)

\* two concurrent calls each created a Lead and a Contact of it, while a
\* call with an unknown source code has failed
C15_Witness ==
    /\ Len(leads) = 2
    /\ Len(contacts) = 2
    /\ contacts[1].lead_id # contacts[2].lead_id
    /\ \E p \in Procs : pc[p] = "failed"

\* the list eligible_operators_for_source returned to the call of p
EligibleReturned(p) == {loc[p].eligible[i] : i \in 1 .. Len(loc[p].eligible)}

(* C16: eligible_operators_for_source(source) returns, each once, exactly  *)
(* the operators that have a weight row for source.id, are active and have *)
(* fewer Contacts with status assigned or in_progress than max_concurrent  *)
(* (new and closed do not count); an operator with max_concurrent 0 is not *)
(* returned; and the call leaves the tables as they were.                  *)
C16_EligibleExactly ==
    \A p \in Procs :
        pc[p] = "weights"
        => /\ EligibleReturned(p) =
                 {id \in DOMAIN operators :
                     /\ \E r \in weights :
                           r.operator_id = id /\ r.source_id = loc[p].source
                     /\ operators[id].is_active
                     /\ Cardinality({i \in 1 .. Len(contacts) :
                                        /\ contacts[i].operator_id = id
                                        /\ contacts[i].status # "new"
                                        /\ contacts[i].status # "closed"})
                            < operators[id].max_concurrent}
           /\ Cardinality(EligibleReturned(p)) = Len(loc[p].eligible)
           /\ \A id \in EligibleReturned(p) : operators[id].max_concurrent # 0
           /\ leads = loc[p].pre_leads
           /\ contacts = loc[p].pre_contacts
           /\ weights = loc[p].pre_weights

\* the one operator returned has a closed Contact and a new one; the other
\* operator is active and idle but linked to the other source only
C16_Witness ==
    /\ pc[1] = "weights"
    /\ \E a, b \in DOMAIN operators :
          /\ a # b
          /\ loc[1].eligible = <<a>>
          /\ Len(contacts) = 2
          /\ contacts[1].operator_id = a /\ contacts[1].status = "closed"
          /\ contacts[2].operator_id = a /\ contacts[2].status = "new"
          /\ operators[b].is_active /\ operators[b].max_concurrent > 0
          /\ \E r \in weights : r.operator_id = b /\ r.source_id # loc[1].source
          /\ ~\E r \in weights : r.operator_id = b /\ r.source_id = loc[1].source

\* the resolved weights of the eligible operators of the call sum to > 0
PositiveTotal(p) ==
    CumWeight(loc[p].eligible, loc[p].wts, Len(loc[p].eligible)) > 0

(* C17: when the resolved weights of the eligible operators sum to > 0,    *)
(* choose_operator_weighted returns an eligible operator, and never one    *)
(* whose resolved weight is 0 (its weight is 0, or it is absent from the   *)
(* mapping); an operator absent from the mapping is not an error.          *)
C17_NoZeroWeightWhenPositiveTotal ==
    \A p \in Procs :
        PositiveTotal(p)
        => /\ pc[p] = "choose" => ENABLED choose_operator(p)
           /\ pc[p] = "create"
              => /\ \E i \in 1 .. Len(loc[p].eligible) :
                       loc[p].eligible[i] = loc[p].operator
                 /\ loc[p].operator \in DOMAIN loc[p].wts
                 /\ loc[p].wts[loc[p].operator] # 0

\* three eligible operators, the first absent from the mapping, the second
\* with weight 0, the third with a positive weight: the third was returned
C17_Witness ==
    /\ pc[1] = "create"
    /\ Len(loc[1].eligible) = 3
    /\ loc[1].eligible[1] \notin DOMAIN loc[1].wts
    /\ loc[1].eligible[2] \in DOMAIN loc[1].wts
    /\ loc[1].wts[loc[1].eligible[2]] = 0
    /\ loc[1].eligible[3] \in DOMAIN loc[1].wts
    /\ loc[1].wts[loc[1].eligible[3]] > 0
    /\ loc[1].operator = loc[1].eligible[3]

(* C18: a Contact created with an operator was assigned to an operator     *)
(* that, when the call read eligibility, had a weight row for the source   *)
(* of the Contact, was active and had fewer open contacts than its         *)
(* max_concurrent; no Contact has an inactive operator or an operator that *)
(* is not linked to its source.                                            *)
C18_AssignedWasEligible ==
    /\ \A p \in Procs :
          (pc[p] = "done" /\ Returned(p).operator_id # NoId)
          => /\ Returned(p).operator_id \in DOMAIN operators
             /\ \E r \in weights : /\ r.operator_id = Returned(p).operator_id
                                   /\ r.source_id = Returned(p).source_id
             /\ operators[Returned(p).operator_id].is_active
             /\ OpenContacts(loc[p].pre_contacts, Returned(p).operator_id)
                    < operators[Returned(p).operator_id].max_concurrent
    /\ \A i \in 1 .. Len(contacts) :
          contacts[i].operator_id # NoId
          => /\ operators[contacts[i].operator_id].is_active
             /\ \E r \in weights : /\ r.operator_id = contacts[i].operator_id
                                   /\ r.source_id = contacts[i].source_id

\* the Contact went to the active operator, which has weight 0, and not to
\* the inactive operator that is linked to the source with a positive weight
C18_Witness ==
    /\ pc[1] = "done"
    /\ \E a, b \in DOMAIN operators :
          /\ ~operators[a].is_active
          /\ operators[a].max_concurrent > 0
          /\ \E r \in weights : r.operator_id = a /\ r.source_id = 1 /\ r.weight > 0
          /\ \E r \in weights : r.operator_id = b /\ r.source_id = 1 /\ r.weight = 0
          /\ Returned(1).operator_id = b

(* C19: a successful call adds exactly one Contact and leaves every        *)
(* Contact there was as it was; a failed call adds none.                   *)
C19_OneContactPerCall ==
    \A p \in Procs :
        /\ pc[p] = "done"
           => /\ Len(contacts) = Len(loc[p].pre_contacts) + 1
              /\ \A i \in 1 .. Len(loc[p].pre_contacts) :
                    contacts[i] = loc[p].pre_contacts[i]
              /\ loc[p].contact = Len(contacts)
        /\ (pc[p] # "idle" /\ pc[p] # "done") => contacts = loc[p].pre_contacts

\* a second call for the lead has returned; the Contact of the first call
\* is assigned, and is as it was
C19_Witness ==
    /\ pc[1] = "done"
    /\ Len(contacts) = 2
    /\ contacts[1].lead_id = contacts[2].lead_id
    /\ contacts[1].status = "assigned"
    /\ contacts[1] = loc[1].pre_contacts[1]

(* C20: a call never modifies or deletes a Lead: every Lead there was      *)
(* before the call is there with its external_id, phone and email as they  *)
(* were, also when the call matched it by one key and carries other fields *)
(* that the Lead has not.                                                  *)
C20_LeadsNeverModified ==
    \A p \in Procs :
        pc[p] # "idle"
        => /\ Len(leads) >= Len(loc[p].pre_leads)
           /\ \A i \in 1 .. Len(loc[p].pre_leads) : leads[i] = loc[p].pre_leads[i]

\* the call matched a Lead by phone; the call has an external_id and an
\* email, the Lead has neither, and the call has returned
C20_Witness ==
    /\ pc[1] = "done"
    /\ ~loc[1].created
    /\ Truthy(loc[1].external_id)
    /\ Truthy(loc[1].email)
    /\ Truthy(loc[1].phone)
    /\ leads[loc[1].lead] = [external_id |-> None, phone |-> loc[1].phone,
                             email |-> None]

(* C21: no step of route_and_create_contact, in a call that succeeds or in *)
(* one that fails, changes an Operator, a Source or an                     *)
(* OperatorSourceWeight row: it writes Leads and Contacts only.            *)
C21_RoutingWritesLeadsAndContactsOnly ==
    [][/\ operators' = operators
       /\ sources' = sources
       /\ weights' = weights]_vars

\* a call has failed after it created a Lead, and an earlier call had
\* created a Lead and a Contact with an operator
C21_Witness ==
    /\ pc[1] = "failed"
    /\ loc[1].created
    /\ Len(leads) = 2
    /\ Len(contacts) = 1
    /\ contacts[1].operator_id # NoId

(* C22: a call that runs while the weights of its source are replaced      *)
(* still completes with a valid Contact: of its Lead and its Source, with  *)
(* an operator of the eligible list it read, or with none when that list   *)
(* was empty, and with the status that goes with it; an operator that is   *)
(* absent from the weight mapping the call read is assigned on the uniform *)
(* fallback only.  (That the call can read the eligible list and the       *)
(* mapping from different configurations is what C22_Witness reaches.)     *)
C22_CompletesDuringReplacement ==
    \A p \in Procs :
        /\ (pc[p] \in {"done", "failed"} /\ KnownSource(p))
           => /\ pc[p] = "done"
              /\ Len(contacts) = Len(loc[p].pre_contacts) + 1
              /\ Returned(p).lead_id = loc[p].lead
              /\ loc[p].lead \in 1 .. Len(leads)
              /\ sources[Returned(p).source_id] = loc[p].source_code
              /\ IF Len(loc[p].eligible) = 0
                 THEN Returned(p).operator_id = NoId
                 ELSE /\ Returned(p).operator_id \in EligibleReturned(p)
                      /\ operators[Returned(p).operator_id].is_active
              /\ Returned(p).status =
                     IF Returned(p).operator_id = NoId THEN "new" ELSE "assigned"
        /\ (pc[p] = "done" /\ Returned(p).operator_id # NoId
              /\ Returned(p).operator_id \notin DOMAIN loc[p].wts)
           => ~PositiveTotal(p)

\* the call read the eligible list when a alone was linked and the mapping
\* when b alone was, with a positive weight: a, which is absent from the
\* mapping, got the Contact
C22_Witness ==
    /\ pc[1] = "done"
    /\ \E a, b \in DOMAIN operators :
          /\ a # b
          /\ loc[1].eligible = <<a>>
          /\ DOMAIN loc[1].wts = {b}
          /\ loc[1].wts[b] > 0
          /\ Returned(1).operator_id = a

C24_NoDuplicateKeys ==
    \A i, j \in 1 .. Len(leads) :
        i # j
        => /\ Truthy(leads[i].external_id)
              => leads[i].external_id # leads[j].external_id
           /\ Truthy(leads[i].phone) => leads[i].phone # leads[j].phone
           /\ Truthy(leads[i].email) => leads[i].email # leads[j].email

\* one Lead has the external_id, another the phone and the email; a call
\* with the three keys has returned and has created no Lead
C24_Witness ==
    /\ pc[1] = "done"
    /\ ~loc[1].created
    /\ Truthy(loc[1].external_id) /\ Truthy(loc[1].phone) /\ Truthy(loc[1].email)
    /\ Len(leads) = 2
    /\ \E i, j \in 1 .. 2 :
          /\ i # j
          /\ leads[i].external_id = loc[1].external_id
          /\ leads[j].phone = loc[1].phone
          /\ leads[j].email = loc[1].email

(* C25: two calls that carry the same external_id, unseen before, and are  *)
(* interleaved so that both look the lead up before either commits a new   *)
(* Lead, resolve to the same Lead, and one Lead only has that external_id  *)
(* afterwards.                                                             *)
C25_InterleavedResolveSame ==
    /\ \A p, q \in Procs :
          (/\ Resolved(p) /\ Resolved(q)
           /\ Truthy(loc[p].external_id)
           /\ loc[p].external_id = loc[q].external_id)
          => loc[p].lead = loc[q].lead
    /\ \A p \in Procs :
          (Resolved(p) /\ Truthy(loc[p].external_id))
          => Cardinality({i \in 1 .. Len(leads) :
                             leads[i].external_id = loc[p].external_id}) = 1

====
